---- MODULE Spec2Model ----
(***************************************************************************)
(* A model of mcap_etl/parser/rosbag.py: the schema flattener              *)
(* (RosbagParser.__flatten_schema), the value filter                       *)
(* (RosbagParser.__filter_multidimensional), Topic and the RosbagParser    *)
(* session (constructor, read_message / read_messages, Topic.as_df).       *)
(*                                                                         *)
(* Strings that the code only concatenates (field names, keys) are TLA+    *)
(* strings; channel names, which format_name inspects character by        *)
(* character, are sequences of one-character strings.                      *)
(***************************************************************************)
EXTENDS Integers, Sequences, FiniteSets, TLC

VARIABLES
    types,        \* RosbagParser.__types : type name -> <<constants, fields>>
    spc,          \* position of a __flatten_schema call: idle / returned / raised
    sarg,         \* ros_type the last __flatten_schema call was given
    sret,         \* the list the last __flatten_schema call returned
    typesAtCall,  \* history: __types when the last __flatten_schema call began
    msg,          \* the decoded message mapping handed to the filter (msg.__dict__)
    msg0,         \* history: that mapping as the decoder produced it
    outs,         \* the values successive filter calls returned
    pc,           \* session position: new / ready / reading / done / failed
    topics,       \* RosbagParser.__topics : Topic name -> Topic
    conns,        \* the connections of the bag file the session was opened on
    readLog,      \* history: <<channel, record>> of every message read so far
    table         \* the table the last Topic.as_df call returned

vars == <<types, spc, sarg, sret, typesAtCall, msg, msg0, outs,
          pc, topics, conns, readLog, table>>

schemaVars  == <<types, spc, sarg, sret, typesAtCall>>
valueVars   == <<msg, msg0, outs>>
sessionVars == <<pc, topics, conns, readLog, table>>

(***************************************************************************)
(* Bounds of the model.                                                    *)
(***************************************************************************)
MaxLen    == 2    \* longest declared fixed array / longest decoded sequence
MaxFields == 2    \* most fields in a generated type definition
MaxCalls  == 2    \* most filter calls on one decoded message
MaxConns  == 2    \* most connections in a bag
MaxMsgs   == 2    \* most messages in a bag

(***************************************************************************)
(* Constants of the program and of the rosbags type system it imports.     *)
(***************************************************************************)
SEPARATOR == "__"

\* rosbags.typesys.base.Nodetype is an IntEnum; a member's .value is the member.
Nodetype_BASE     == 1
Nodetype_NAME     == 2
Nodetype_ARRAY    == 3
Nodetype_SEQUENCE == 4

\* str(i) for the indices that occur
str(i) == ToString(i)

\* the built-in catalog rosbags.typesys.types.FIELDDEFS (the entries used here)
FIELDDEFS ==
    "Time" :> << <<>>, << <<"sec",     <<Nodetype_BASE, "int32">> >>,
                          <<"nanosec", <<Nodetype_BASE, "uint32">> >> >> >>

FlatField(name, ros_type) == [name |-> name, ros_type |-> ros_type]

(***************************************************************************)
(* RosbagParser.__flatten_schema.  A call either raises TypeError or       *)
(* returns a list of FlatField.                                            *)
(***************************************************************************)
Raised        == [raised |-> TRUE,  value |-> <<>>]
Returned(seq) == [raised |-> FALSE, value |-> seq]

\* lines 161-164: for i in range(length): append FlatField(name__i, param type)
RECURSIVE expand_range(_, _, _, _)
expand_range(name, param_ros_type, i, length) ==
    IF i >= length THEN <<>>
    ELSE <<FlatField(name \o SEPARATOR \o str(i), param_ros_type)>>
         \o expand_range(name, param_ros_type, i + 1, length)

\* lines 149-152: prefix every child with parent_prefix
prefix_children(parent_prefix, children) ==
    [c \in 1..Len(children) |->
        FlatField(parent_prefix \o children[c].name, children[c].ros_type)]

RECURSIVE flatten_fields(_, _, _)

\* a variant that takes an unresolvable type for a type without fields
flatten_schema_skip_unknown(registry, ros_type) ==
    IF ros_type \in DOMAIN registry
      THEN flatten_fields(registry, registry[ros_type][2], 1)
    ELSE IF ros_type \in DOMAIN FIELDDEFS
      THEN flatten_fields(registry, FIELDDEFS[ros_type][2], 1)
    ELSE [raised |-> FALSE, value |-> <<>>]

RECURSIVE flatten_schema(_, _)

\* lines 136-164: what one iteration of the loop appends for field_node
flatten_field(registry, field_node) ==
    LET name     == field_node[1]
        ros_type == field_node[2][2]
        is_prim  == field_node[2][1] = Nodetype_BASE
        is_cls   == field_node[2][1] = Nodetype_NAME
        is_arr   == field_node[2][1] = Nodetype_SEQUENCE
    IN  IF is_prim THEN Returned(<<FlatField(name, ros_type)>>)
        ELSE IF is_cls THEN
            LET parent_prefix == name \o SEPARATOR
                children      == flatten_schema(registry, ros_type)
            IN  IF children.raised THEN Raised
                ELSE Returned(prefix_children(parent_prefix, children.value))
        ELSE IF is_arr THEN
            LET length           == field_node[2][1]     \* field_node[1][0].value
                param_field_node == field_node[2][2][1]
                param_ros_type   == param_field_node[2]
                is_param_prim    == param_field_node[1] = Nodetype_BASE
            IN  IF is_param_prim
                  THEN Returned(expand_range(name, param_ros_type, 0, length))
                  ELSE Returned(<<>>)
        ELSE Returned(<<>>)

\* lines 133-166: the loop over schema_tree from field i on, then the return
flatten_fields(registry, schema_tree, i) ==
    IF i > Len(schema_tree) THEN Returned(<<>>)
    ELSE LET head == flatten_field(registry, schema_tree[i])
         IN  IF head.raised THEN Raised
             ELSE LET rest == flatten_fields(registry, schema_tree, i + 1)
                  IN  IF rest.raised THEN Raised
                      ELSE Returned(head.value \o rest.value)

\* lines 127-132: resolve the type or raise TypeError
flatten_schema(registry, ros_type) ==
    IF ros_type \in DOMAIN registry
      THEN flatten_fields(registry, registry[ros_type][2], 1)
    ELSE IF ros_type \in DOMAIN FIELDDEFS
      THEN flatten_fields(registry, FIELDDEFS[ros_type][2], 1)
    ELSE Raised

(***************************************************************************)
(* The type definitions the schema flattener is exercised on: what         *)
(* get_types_from_msg can hand to __parse_topics (line 103), as rosbags    *)
(* field descriptors <<name, <<Nodetype, payload>>>>.  A fixed-length      *)
(* array T[n] is <<ARRAY, <<element, n>>>>, an unbounded T[] is            *)
(* <<SEQUENCE, <<element, 0>>>>.                                           *)
(***************************************************************************)
FieldNames == {"a", "a__x", "a__0"}

ElemNodes ==
    { <<Nodetype_BASE, "int32">>, <<Nodetype_NAME, "U">>,
      <<Nodetype_SEQUENCE, << <<Nodetype_BASE, "int32">>, 0 >> >> }

Nodes ==
    { <<Nodetype_BASE, "float64">> }
    \union { <<Nodetype_NAME, t>> : t \in {"U", "V", "Time"} }
    \union { <<Nodetype_ARRAY, <<e, n>> >> : e \in ElemNodes, n \in 1..MaxLen }
    \union { <<Nodetype_SEQUENCE, <<e, 0>> >> : e \in ElemNodes }

FieldLists ==
    UNION { { fl \in [1..k -> FieldNames \X Nodes] :
                \A i, j \in 1..k : i # j => fl[i][1] # fl[j][1] } : k \in 0..MaxFields }

UDefs ==
    { << <<"x", <<Nodetype_BASE, "int32">> >> >>,
      << <<"x", <<Nodetype_NAME, "Time">> >> >>,
      << <<"x", <<Nodetype_NAME, "V">> >> >> }

\* what one connection's message definition registers: T with its dependency U, or U alone
TypeFragments ==
    { ("T" :> << <<>>, tf >>) @@ ("U" :> << <<>>, uf >>) : tf \in FieldLists, uf \in UDefs }
    \union { ("U" :> << <<>>, uf >>) : uf \in UDefs }

CallNames == {"T", "U", "V", "Time"}

\* dict.update (line 105)
update(d, new) == new @@ d

(***************************************************************************)
(* Schema flattener on its own: the types of one connection's message      *)
(* definition are registered, and type names are flattened before and      *)
(* after that.  Here conns holds the connections still to be parsed.       *)
(***************************************************************************)
Connection(topic, msgtype, msgdef) ==
    [topic |-> topic, msgtype |-> msgtype, msgdef |-> msgdef]

SchemaInit ==
    /\ types = <<>>
    /\ spc = "idle" /\ sarg = "" /\ sret = <<>> /\ typesAtCall = <<>>
    /\ msg = <<>> /\ msg0 = <<>> /\ outs = <<>>
    /\ pc = "new" /\ topics = <<>> /\ readLog = <<>>
    /\ table = <<>>
    /\ \E frag \in TypeFragments : conns = << Connection(<<"/", "a">>, "T", frag) >>

\* lines 103-105: the types of the next connection's definition are added to __types
RegisterTypes ==
    /\ conns # <<>>
    /\ types' = update(types, Head(conns).msgdef)
    /\ conns' = Tail(conns)
    /\ spc' = "idle" /\ sarg' = "" /\ sret' = <<>>
    /\ typesAtCall' = types'
    /\ UNCHANGED <<valueVars, pc, topics, readLog, table>>

\* lines 127-166: one call of __flatten_schema
FlattenSchema ==
    \E ros_type \in CallNames :
        LET r == flatten_schema(types, ros_type)
        IN  /\ sarg' = ros_type
            /\ typesAtCall' = types
            /\ spc' = IF r.raised THEN "raised" ELSE "returned"
            /\ sret' = r.value
            /\ UNCHANGED <<types, valueVars, sessionVars>>

SchemaNext == RegisterTypes \/ FlattenSchema

SpecSchema == SchemaInit /\ [][SchemaNext]_vars

(***************************************************************************)
(* Claims about the schema flattener (checked under SpecSchema).           *)
(***************************************************************************)
Resolvable(registry, t) == t \in DOMAIN registry \union DOMAIN FIELDDEFS

FieldsOf(registry, t) ==
    IF t \in DOMAIN registry THEN registry[t][2] ELSE FIELDDEFS[t][2]

\* the concatenation, in declaration order, of Seg(field) over a field list
Cat(fields, Seg(_)) ==
    LET acc[i \in 0..Len(fields)] ==
            IF i = 0 THEN <<>> ELSE acc[i - 1] \o Seg(fields[i])
    IN  acc[Len(fields)]

IsSeqNode(node) == node[1] \in {Nodetype_ARRAY, Nodetype_SEQUENCE}

\* a sequence of fixed length n >= 1 whose elements are BASE
IsFixedBaseSeq(node) ==
    /\ node[1] = Nodetype_ARRAY
    /\ node[2][2] >= 1
    /\ node[2][1][1] = Nodetype_BASE

\* a sequence of unbounded length, or one whose elements are NAMED or sequences
IsDataDependentSeq(node) ==
    /\ IsSeqNode(node)
    /\ \/ node[1] = Nodetype_SEQUENCE /\ node[2][2] = 0
       \/ node[2][1][1] \in {Nodetype_NAME, Nodetype_ARRAY, Nodetype_SEQUENCE}

\* f__0 .. f__(n-1), each of type t
Indexed(f, t, n) == [i \in 1..n |-> FlatField(f \o "__" \o ToString(i - 1), t)]

\* C1: when a call returns, a field f that is a sequence of fixed length n with
\* BASE element type t contributes, at its place in declaration order, exactly
\* the n fields f__0 .. f__(n-1) of type t (the other fields contribute what
\* the flattener gives them).
C1_FixedArrayExpanded ==
    spc = "returned" =>
        LET Seg(fn) == IF IsFixedBaseSeq(fn[2])
                         THEN Indexed(fn[1], fn[2][2][1][2], fn[2][2][2])
                         ELSE flatten_field(typesAtCall, fn).value
        IN  sret = Cat(FieldsOf(typesAtCall, sarg), Seg)

\* C2: when a call returns, a sequence field of unbounded length, or with NAMED
\* or sequence elements, contributes no field at all, and the other fields
\* contribute what the flattener gives them.
C2_DataDependentSeqOmitted ==
    spc = "returned" =>
        LET Seg(fn) == IF IsDataDependentSeq(fn[2]) THEN <<>>
                       ELSE flatten_field(typesAtCall, fn).value
        IN  sret = Cat(FieldsOf(typesAtCall, sarg), Seg)

\* a type name that cannot be resolved, at the top or below NAMED fields
RECURSIVE ReachesUnknown(_, _)
ReachesUnknown(registry, t) ==
    \/ ~Resolvable(registry, t)
    \/ \E i \in 1..Len(FieldsOf(registry, t)) :
          /\ FieldsOf(registry, t)[i][2][1] = Nodetype_NAME
          /\ ReachesUnknown(registry, FieldsOf(registry, t)[i][2][2])

\* C8: a call on a type name that is unresolvable, at the top level or at any
\* depth below NAMED fields, raises, returns no (partial) schema and leaves
\* the registry as it was when the call began.
C8_UnknownTypeRaises ==
    (spc \in {"returned", "raised"} /\ ReachesUnknown(typesAtCall, sarg)) =>
        /\ spc = "raised"
        /\ sret = <<>>
        /\ types = typesAtCall

\* C8 witness: T is registered, its first field is a BASE field (a partial schema
\* existed), a later NAMED field leads through U to the unregistered V; the call raised.
C8_Witness ==
    /\ spc = "raised" /\ sarg = "T" /\ "T" \in DOMAIN types /\ "U" \in DOMAIN types
    /\ Len(types["T"][2]) = 2
    /\ types["T"][2][1][2][1] = Nodetype_BASE
    /\ types["T"][2][2][2] = <<Nodetype_NAME, "U">>
    /\ types["U"][2][1][2] = <<Nodetype_NAME, "V">>

\* C10: the names a returning call produced are pairwise distinct (every
\* generated definition is acyclic and has pairwise distinct field names).
C10_NamesDistinct ==
    spc = "returned" =>
        \A i, j \in 1..Len(sret) : i # j => sret[i].name # sret[j].name

(***************************************************************************)
(* Decoded values.  Every Python value is [k |-> its type, v |-> payload]: *)
(* a dict's payload is the function key -> value, a list's or tuple's the  *)
(* sequence of items, an ndarray's [ndim, items] (items are the elements   *)
(* enumerate() yields: numpy scalars for ndim 1, sub-arrays above), a      *)
(* scalar's an integer standing for its value.                             *)
(***************************************************************************)
Py(k, v) == [k |-> k, v |-> v]
None     == Py("NoneType", 0)
Dict(f)  == Py("dict", f)
NdArray(ndim, items) == Py("ndarray", [ndim |-> ndim, items |-> items])

\* RosbagParser.PRIM_TYPES
PRIM_TYPES ==
    { "int", "float", "bool", "str", "NoneType",
      "np.int8", "np.int16", "np.int32", "np.int64",
      "np.float16", "np.float32", "np.float64", "np.bool" }

\* lines 118-121: asdict[str(i)] = item i, for i, v in enumerate(data)
asdict(items) ==
    [key \in { str(i - 1) : i \in 1..Len(items) } |->
        items[CHOOSE i \in 1..Len(items) : str(i - 1) = key]]

items_of(data) == IF data.k = "ndarray" THEN data.v.items ELSE data.v

RECURSIVE filter_any_ndim(_)
\* a variant that unrolls an ndarray of any rank
filter_any_ndim(data) ==
    IF data.k = "dict" THEN
        LET r == Dict([key \in DOMAIN data.v |-> filter_any_ndim(data.v[key]).ret])
        IN  [ret |-> r, arg |-> r]
    ELSE IF data.k \in {"list", "tuple", "ndarray"} THEN
        LET sub == [i \in 1..Len(items_of(data)) |-> filter_any_ndim(items_of(data)[i])]
        IN  [ret |-> Dict(asdict([i \in 1..Len(sub) |-> sub[i].ret])), arg |-> data]
    ELSE IF data.k \notin PRIM_TYPES THEN [ret |-> None, arg |-> data]
    ELSE [ret |-> data, arg |-> data]

RECURSIVE filter_one_based(_)
\* a variant that keys the elements of a sequence from 1
filter_one_based(data) ==
    IF data.k = "dict" THEN
        LET r == Dict([key \in DOMAIN data.v |-> filter_one_based(data.v[key]).ret])
        IN  [ret |-> r, arg |-> r]
    ELSE IF data.k \in {"list", "tuple"} \/ (data.k = "ndarray" /\ data.v.ndim = 1) THEN
        LET sub == [i \in 1..Len(items_of(data)) |-> filter_one_based(items_of(data)[i])]
        IN  [ret |-> Dict([key \in { str(i) : i \in 1..Len(sub) } |->
                            sub[CHOOSE i \in 1..Len(sub) : str(i) = key].ret]),
             arg |-> data]
    ELSE IF data.k \notin PRIM_TYPES THEN [ret |-> None, arg |-> data]
    ELSE [ret |-> data, arg |-> data]

(***************************************************************************)
(* RosbagParser.__filter_multidimensional.  ret is the value returned; arg *)
(* is the state of the object passed in once the call has returned: a dict *)
(* is rewritten in place (data[k] = ...) and is itself the value returned, *)
(* a sequence keeps its own items, which the recursion may have rewritten. *)
(***************************************************************************)
RECURSIVE filter_multidimensional(_)
filter_multidimensional(data) ==
    IF data.k = "dict" THEN
        LET r == Dict([key \in DOMAIN data.v |-> filter_multidimensional(data.v[key]).ret])
        IN  [ret |-> r, arg |-> r]
    ELSE IF data.k \in {"list", "tuple"} \/ (data.k = "ndarray" /\ data.v.ndim = 1) THEN
        LET sub == [i \in 1..Len(items_of(data)) |-> filter_multidimensional(items_of(data)[i])]
            kept == [i \in 1..Len(sub) |-> sub[i].arg]
        IN  [ret |-> Dict(asdict([i \in 1..Len(sub) |-> sub[i].ret])),
             arg |-> IF data.k = "ndarray" THEN NdArray(1, kept) ELSE Py(data.k, kept)]
    ELSE IF data.k \notin PRIM_TYPES THEN [ret |-> None, arg |-> data]
    ELSE [ret |-> data, arg |-> data]

(***************************************************************************)
(* The decoded messages the filter is exercised on.                        *)
(***************************************************************************)
PyInt(n) == Py("int", n)
Blob   == Py("bytes", 7)                       \* a binary blob
Obj    == Py("object", 8)                      \* an object of an unknown class
Arr2D  == NdArray(2, << NdArray(1, <<Py("np.float64", 1), Py("np.float64", 2)>>),
                        NdArray(1, <<Py("np.float64", 3), Py("np.float64", 4)>>) >>)
Arr0D  == NdArray(0, <<>>)

SeqsOver(S, n) == UNION { [1..k -> S] : k \in 0..n }

Leaves == { PyInt(1), PyInt(2), Py("str", 3), None, Py("np.float64", 1),
            Py("np.uint8", 5), Blob, Obj, Arr2D, Arr0D }

InnerDicts ==
    { Dict(f) : f \in UNION { [ks -> {PyInt(1), PyInt(2), Blob}] : ks \in SUBSET {"x", "y"} } }

Level1 ==
    Leaves \union InnerDicts
    \union { Py(k, items) : k \in {"list"},
                items \in SeqsOver({PyInt(1), Obj, Arr2D, Dict([x |-> PyInt(1)])}, MaxLen) }
    \union { Py("tuple", <<PyInt(1), PyInt(2)>>) }
    \union { NdArray(1, items) :
                items \in SeqsOver({Py("np.float64", 1), Py("np.uint8", 5)}, MaxLen) }

DecodedMessages ==
    { Dict(f) : f \in UNION { [ks -> Level1] : ks \in SUBSET {"a", "m"} } }
    \union { Dict(f @@ ("a__x" :> PyInt(2))) : f \in [{"a"} -> InnerDicts] }

(***************************************************************************)
(* The filter on its own: a decoded message is filtered, then filtered     *)
(* again.                                                                  *)
(***************************************************************************)
ValueInit ==
    /\ types = <<>>
    /\ spc = "idle" /\ sarg = "" /\ sret = <<>> /\ typesAtCall = <<>>
    /\ msg \in DecodedMessages /\ msg0 = msg /\ outs = <<>>
    /\ pc = "new" /\ topics = <<>> /\ conns = <<>> /\ readLog = <<>>
    /\ table = <<>>

\* lines 113-125: one call of __filter_multidimensional on the message
Filter ==
    /\ Len(outs) < MaxCalls
    /\ LET f == filter_multidimensional(msg)
       IN  /\ outs' = Append(outs, f.ret)
           /\ msg' = f.arg
    /\ UNCHANGED <<msg0, schemaVars, sessionVars>>

ValueNext == Filter

SpecValue == ValueInit /\ [][ValueNext]_vars

(***************************************************************************)
(* pandas.io.json nested_to_record(d, sep=SEPARATOR), the flattening       *)
(* step of pd.json_normalize (line 35), on one record: a nested dict is    *)
(* replaced by its entries under prefix + sep + key, any other value is    *)
(* kept.  Where a nested entry and a top-level key produce the same        *)
(* flattened key the nested entry is the one kept.                         *)
(***************************************************************************)
RECURSIVE nested_to_record(_, _, _)
RECURSIVE merge_nested(_, _, _, _)

merge_nested(d, keys, prefix, level) ==
    IF keys = {} THEN <<>>
    ELSE LET k      == CHOOSE key \in keys : TRUE
             newkey == IF level = 0 THEN k ELSE prefix \o SEPARATOR \o k
         IN  nested_to_record(d[k], newkey, level + 1)
             @@ merge_nested(d, keys \ {k}, prefix, level)

nested_to_record(record, prefix, level) ==
    LET d       == record.v
        nested  == { k \in DOMAIN d : d[k].k = "dict" }
        plain   == DOMAIN d \ nested
        newkey(k) == IF level = 0 THEN k ELSE prefix \o SEPARATOR \o k
    IN  merge_nested(d, nested, prefix, level)
        @@ [nk \in { newkey(k) : k \in plain } |->
               d[CHOOSE k \in plain : newkey(k) = nk]]

(***************************************************************************)
(* Claims about the value filter (checked under SpecValue).                *)
(***************************************************************************)
IsMapping(v)          == v.k = "dict"
IsRank1Seq(v)         == v.k \in {"list", "tuple"} \/ (v.k = "ndarray" /\ v.v.ndim = 1)
IsRecognizedScalar(v) == v.k \in PRIM_TYPES

ChildKeys(v) ==
    IF IsMapping(v) THEN DOMAIN v.v
    ELSE { ToString(i - 1) : i \in 1..Len(items_of(v)) }

Child(v, key) ==
    IF IsMapping(v) THEN v.v[key]
    ELSE items_of(v)[CHOOSE i \in 1..Len(items_of(v)) : ToString(i - 1) = key]

\* the terminal values of v with their paths: <<path of names and indices, value>>
RECURSIVE NodesOf(_)
NodesOf(v) ==
    IF IsMapping(v) \/ IsRank1Seq(v)
      THEN UNION { { << <<key>> \o q[1], q[2] >> : q \in NodesOf(Child(v, key)) } :
                   key \in ChildKeys(v) }
      ELSE { << <<>>, v >> }

\* every container in v is a mapping
RECURSIVE OnlyMappings(_)
OnlyMappings(v) ==
    /\ ~IsRank1Seq(v)
    /\ IsMapping(v) => \A key \in DOMAIN v.v : OnlyMappings(v.v[key])

\* the names and indices of a path joined with JOIN
RECURSIVE Join(_)
Join(path) ==
    IF Len(path) = 1 THEN path[1] ELSE path[1] \o "__" \o Join(Tail(path))

\* built from mappings, rank-1 sequences and recognized scalars only
Supported(v) == \A q \in NodesOf(v) : IsRecognizedScalar(q[2])

C4_UnsupportedBecomesNone ==
    Len(outs) >= 1 =>
        /\ IsMapping(outs[1])
        /\ \A q \in NodesOf(msg0) :
              ~IsRecognizedScalar(q[2]) => << q[1], None >> \in NodesOf(outs[1])
        /\ ("m" \in DOMAIN msg0.v /\ msg0.v["m"] = Arr2D) => outs[1].v["m"] = None

\* C4 witness: a message with a 2-dimensional array m and a list holding an
\* unknown object has been filtered
C4_Witness ==
    /\ Len(outs) >= 1
    /\ DOMAIN msg0.v = {"a", "m"}
    /\ msg0.v["m"] = Arr2D
    /\ msg0.v["a"] = Py("list", <<PyInt(1), Obj>>)
    /\ outs[1] = Dict([a |-> Dict(("0" :> PyInt(1)) @@ ("1" :> None)), m |-> None])

\* C9: the filter is pure: every call on the message returned the same value
\* and the message is what it was before the first call.
C9_FilterIsPure ==
    Len(outs) >= 1 =>
        /\ \A i, j \in 1..Len(outs) : outs[i] = outs[j]
        /\ msg = msg0

(***************************************************************************)
(* Topic.                                                                  *)
(***************************************************************************)
\* Topic.format_name (lines 23-27); name is a sequence of characters
RECURSIVE replace_slash(_)
replace_slash(name) ==
    IF name = <<>> THEN ""
    ELSE (IF Head(name) = "/" THEN SEPARATOR ELSE Head(name)) \o replace_slash(Tail(name))

format_name(name) ==
    replace_slash(IF name # <<>> /\ Head(name) = "/" THEN Tail(name) ELSE name)

\* Topic.__init__ (lines 29-32); channel is history: the name it was created from
Topic(name, schema) ==
    [name |-> format_name(name), schema |-> schema, messages |-> <<>>, channel |-> name]

\* Topic.add_message (lines 38-39)
add_message(topic, message) ==
    [topic EXCEPT !.messages = Append(@, message)]

\* Topic.message_count (lines 41-42)
message_count(topic) == Len(topic.messages)

\* the float NaN pandas puts in a cell that has no value
NaN == Py("float", -1)

\* a variant that takes the columns from the first record only
as_df_first_record(messages) ==
    LET flat == [i \in 1..Len(messages) |-> nested_to_record(messages[i], "", 0)]
        cols == IF messages = <<>> THEN {} ELSE DOMAIN flat[1]
    IN  [columns |-> cols,
         rows    |-> [i \in 1..Len(messages) |->
                        [c \in cols |-> IF c \in DOMAIN flat[i] THEN flat[i][c] ELSE NaN]]]

\* Topic.as_df (lines 34-36): pd.json_normalize(messages, sep=SEPARATOR) as a frame:
\* one row per record, a column per flattened key, NaN where a record has no such key
as_df(messages) ==
    LET flat == [i \in 1..Len(messages) |-> nested_to_record(messages[i], "", 0)]
        cols == UNION { DOMAIN flat[i] : i \in 1..Len(messages) }
    IN  [columns |-> cols,
         rows    |-> [i \in 1..Len(messages) |->
                        [c \in cols |-> IF c \in DOMAIN flat[i] THEN flat[i][c] ELSE NaN]]]

(***************************************************************************)
(* RosbagParser.                                                           *)
(***************************************************************************)
NS_PER_MS == 1000000       \* MS_IN_NS = 1e-6 (line 47): ts * 1e-6, truncated by int()

\* RosbagParser.is_rosbag (lines 63-65): file.endswith('.bag')
is_rosbag(file) ==
    /\ Len(file) >= 4
    /\ SubSeq(file, Len(file) - 3, Len(file)) = <<".", "b", "a", "g">>

\* RosbagParser.__parse_topics (lines 99-111) from connection i on: the registry
\* after the loop and the list of Topics, unless a __flatten_schema call raised
RECURSIVE parse_topics(_, _, _)
parse_topics(registry, connections, i) ==
    IF i > Len(connections) THEN [raised |-> FALSE, types |-> registry, topics |-> <<>>]
    ELSE LET conn     == connections[i]
             updated  == update(registry, conn.msgdef)
             schema   == flatten_schema(updated, conn.msgtype)
             rest     == parse_topics(updated, connections, i + 1)
         IN  IF schema.raised
               THEN [raised |-> TRUE, types |-> updated, topics |-> <<>>]
             ELSE IF rest.raised THEN rest
             ELSE [raised |-> FALSE, types |-> rest.types,
                   topics |-> <<Topic(conn.topic, schema.value)>> \o rest.topics]

\* lines 75-76: for topic in ...: self.__topics[topic.name] = topic
RECURSIVE topics_by_name(_, _)
topics_by_name(map, list) ==
    IF list = <<>> THEN map
    ELSE topics_by_name((list[1].name :> list[1]) @@ map, Tail(list))

\* lines 83-88: what read_message yields for one decoded message
read_record(decoded, ts) ==
    LET filtered == filter_multidimensional(decoded).ret
        stamped  == ("ts" :> PyInt(ts \div NS_PER_MS)) @@ filtered.v
    IN  Dict([key \in DOMAIN stamped \ {"__msgtype__"} |-> stamped[key]])

(***************************************************************************)
(* The bags the session is exercised on.                                   *)
(***************************************************************************)
ChannelNames ==
    { <<"/", "a", "/", "b">>, <<"a", "/", "b">>, <<"/", "a", "_", "_", "b">>, <<"/", "a">> }

Files == { <<"x", ".", "b", "a", "g">>, <<"x", ".", "m", "c", "a", "p">> }

\* T{a: U{x, y}, m: float64[]} with its dependency U
SessionDef ==
    ("T" :> << <<>>, << <<"a", <<Nodetype_NAME, "U">> >>,
                       <<"m", <<Nodetype_SEQUENCE, << <<Nodetype_BASE, "float64">>, 0 >> >> >> >> >>)
    @@ ("U" :> << <<>>, << <<"x", <<Nodetype_BASE, "int32">> >>,
                          <<"y", <<Nodetype_BASE, "int32">> >> >> >>)

Connections ==
    { Connection(name, "T", SessionDef) : name \in ChannelNames }
    \union { Connection(<<"/", "a">>, "V", SessionDef) }

TypeTag == Py("str", 9)

\* decoded messages of type T, as the decoder's __dict__
SessionMessages ==
    { Dict([a |-> Dict([x |-> PyInt(1), y |-> PyInt(2)]),
            m |-> NdArray(1, <<Py("np.float64", 1), Py("np.float64", 2)>>),
            __msgtype__ |-> TypeTag]),
      Dict([a |-> Dict([x |-> PyInt(1), y |-> PyInt(2)]),
            m |-> NdArray(1, <<Py("np.float64", 1)>>),
            __msgtype__ |-> TypeTag]),
      Dict([a |-> Dict([x |-> PyInt(2), y |-> PyInt(2)]),
            m |-> Arr2D,
            __msgtype__ |-> TypeTag]) }

\* the time stamp, in ns, of the i-th message of the log
Timestamp(i) == i * 1500000

(***************************************************************************)
(* The session: construction on a bag, one ingestion pass, tables.         *)
(***************************************************************************)
Init ==
    /\ types = <<>>
    /\ spc = "idle" /\ sarg = "" /\ sret = <<>> /\ typesAtCall = <<>>
    /\ msg = <<>> /\ msg0 = <<>> /\ outs = <<>>
    /\ pc = "new" /\ topics = <<>> /\ readLog = <<>>
    /\ table = [topic |-> "", records |-> <<>>, df |-> as_df(<<>>)]
    /\ conns \in SeqsOver(Connections, MaxConns)

\* RosbagParser.__init__ (lines 67-76)
Construct ==
    /\ pc = "new"
    /\ \E file \in Files :
          IF ~is_rosbag(file)
            THEN pc' = "failed" /\ UNCHANGED <<types, topics>>
            ELSE LET parsed == parse_topics(<<>>, conns, 1)
                 IN  /\ types' = parsed.types
                     /\ topics' = topics_by_name(<<>>, parsed.topics)
                     /\ pc' = IF parsed.raised THEN "failed" ELSE "ready"
    /\ UNCHANGED <<spc, sarg, sret, typesAtCall, valueVars, conns, readLog, table>>

\* one iteration of read_messages (lines 92-94) over read_message (lines 78-90)
ReadMessage ==
    /\ pc \in {"ready", "reading"}
    /\ Len(readLog) < MaxMsgs
    /\ \E c \in 1..Len(conns), decoded \in SessionMessages :
          LET topic  == format_name(conns[c].topic)
              record == read_record(decoded, Timestamp(Len(readLog) + 1))
          IN  /\ topics' = [topics EXCEPT ![topic] = add_message(@, record)]
              /\ readLog' = Append(readLog,
                     [channel |-> conns[c].topic, topic |-> topic, record |-> record])
    /\ pc' = "reading"
    /\ UNCHANGED <<schemaVars, valueVars, conns, table>>

\* the reader has no more messages: read_messages returns
EndOfLog ==
    /\ pc \in {"ready", "reading"}
    /\ pc' = "done"
    /\ UNCHANGED <<schemaVars, valueVars, topics, conns, readLog, table>>

\* Topic.as_df on one of the session's topics, before or after the pass
AsDf ==
    /\ pc \in {"ready", "done"}
    /\ \E name \in DOMAIN topics :
          table' = [topic |-> name, records |-> topics[name].messages,
                    df |-> as_df(topics[name].messages)]
    /\ UNCHANGED <<schemaVars, valueVars, pc, topics, conns, readLog>>

Next == Construct \/ ReadMessage \/ EndOfLog \/ AsDf

Spec == Init /\ [][Next]_vars

(***************************************************************************)
(* Claims about the session (checked under Spec).                          *)
(***************************************************************************)
Opened == pc \in {"ready", "reading", "done"}

Channels == { conns[i].topic : i \in 1..Len(conns) }

\* C5: once the session is open, two distinct channels of the bag have distinct
\* Topic names, every channel has a Topic of its own in the topic map, and
\* every message read was appended to the Topic of its own channel.
C5_ChannelsKeepApart ==
    Opened =>
        /\ \A c1, c2 \in Channels : c1 # c2 => format_name(c1) # format_name(c2)
        /\ \A c \in Channels :
              /\ format_name(c) \in DOMAIN topics
              /\ topics[format_name(c)].channel = c
        /\ \A i \in 1..Len(readLog) :
              topics[readLog[i].topic].channel = readLog[i].channel

\* the records, in log order, of the messages read so far on a channel
RECURSIVE RecordsOn(_, _)
RecordsOn(channel, log) ==
    IF log = <<>> THEN <<>>
    ELSE (IF log[1].channel = channel THEN <<log[1].record>> ELSE <<>>)
         \o RecordsOn(channel, Tail(log))

\* C6: at every point of the pass a Topic holds exactly the records of the
\* messages read so far on its channel, in log order and once each, and
\* message_count is their number.
C6_TopicHoldsItsChannel ==
    Opened =>
        \A name \in DOMAIN topics :
            /\ topics[name].messages = RecordsOn(topics[name].channel, readLog)
            /\ message_count(topics[name]) = Len(RecordsOn(topics[name].channel, readLog))

\* the flattened keys of a record: the JOIN-joined paths of its leaves
JoinedKeys(record) == { Join(q[1]) : q \in NodesOf(record) }

\* the leaf of a record under a flattened key
LeafAt(record, key) == (CHOOSE q \in NodesOf(record) : Join(q[1]) = key)[2]

\* pandas.isna on a cell
isna(cell) == cell \in {NaN, None}

TableOf == Opened /\ table.topic \in DOMAIN topics

====
